---- MODULE Spec2Model ----
(***************************************************************************)
(* Event-list generation of the LabOne Q compiler                          *)
(* (laboneq/compiler/event_list/event_list_generator.py).                  *)
(*                                                                         *)
(* generate_event_list is a pure recursive function of an IR tree, a start *)
(* time, an event budget, the shared id counter and the loop-expansion     *)
(* flag.  The IR tree is a record per node; an event is a record holding   *)
(* exactly the keys the Python dict holds (of the payload keys only those  *)
(* that identify the event are kept: amplitudes, phases, pulse parameters  *)
(* and markers are left out, they never influence control flow).  The id   *)
(* counter (itertools.count) is threaded through every operator: each      *)
(* returns the list it built together with the next unused id.             *)
(***************************************************************************)
EXTENDS Integers, Sequences, FiniteSets, TLC

VARIABLES ir, start, max_events, expand_loops, id_tracker, events, pc,
          flattening,
          schedule_data, match_schedule, start_may_change, timing

vars == <<ir, start, max_events, expand_loops, id_tracker, events, pc,
          flattening, schedule_data, match_schedule, start_may_change, timing>>

\* the state of event-list generation and that of match timing resolution
generation_vars ==
    <<ir, max_events, expand_loops, id_tracker, events, flattening>>

timing_vars == <<schedule_data, match_schedule, start_may_change, timing>>

(***************************************************************************)
(* Bounds of the model.                                                    *)
(***************************************************************************)
MaxBudget == 14
MaxIterations == 3
MaxSignals == 2
Unlimited == 1000
MaxLatency == 2
MaxBump == 3
TinysamplesPerSecond == 24

None == "None"

(***************************************************************************)
(* IR nodes.                                                               *)
(***************************************************************************)
Node(kind, section, length) ==
    [kind |-> kind, section |-> section, length |-> length,
     children |-> <<>>, children_start |-> <<>>,
     trigger_output |-> <<>>, prng_setup |-> FALSE,
     iterations |-> 0, compressed |-> FALSE,
     iteration |-> 0, shadow |-> FALSE, sweep_parameters |-> <<>>,
     prng_sample |-> None,
     handle |-> None, local |-> FALSE, state |-> 0, signals |-> <<>>,
     offset |-> 0, is_delay |-> FALSE, is_acquire |-> FALSE, signal |-> None,
     oscillators |-> <<>>, hw_osc_devices |-> <<>>,
     reset_sw_oscillators |-> FALSE]

\* The classes registered for SectionIR's emission rule or tested with
\* isinstance(_, SectionIR): SectionIR and its subclasses.
IsSectionIR(n) ==
    n.kind \in {"Section", "Loop", "LoopIteration", "Match", "Case", "EmptyBranch"}

\* LoopIterationIR.compressed_iteration(iteration): the prototype as the
\* shadow of iteration `iteration`.
compressed_iteration(prototype, iteration) ==
    [prototype EXCEPT !.iteration = iteration, !.shadow = TRUE]

(***************************************************************************)
(* Helpers on events and lists.                                            *)
(***************************************************************************)
Has(e, f) == f \in DOMAIN e

\* e[f] = v on a dict
SetField(e, f, v) == (f :> v) @@ e

RECURSIVE Flatten(_)
Flatten(nested) ==
    IF nested = <<>> THEN <<>> ELSE Head(nested) \o Flatten(Tail(nested))

Result(ev, idc) == [ev |-> ev, idc |-> idc]

(***************************************************************************)
(* Leaf nodes.                                                             *)
(***************************************************************************)
\* generate_event_list_pulse: DELAY, ACQUIRE or PLAY pair
PulseEventTypes(pulse_ir) ==
    IF pulse_ir.is_delay THEN <<"DELAY_START", "DELAY_END">>
    ELSE IF pulse_ir.is_acquire THEN <<"ACQUIRE_START", "ACQUIRE_END">>
    ELSE <<"PLAY_START", "PLAY_END">>

PulseStartTime(pulse_ir, t) ==
    IF pulse_ir.is_delay THEN t ELSE t + pulse_ir.offset

generate_event_list_pulse(pulse_ir, t, idc) ==
    LET start_id == idc
        end_id == idc + 1
        types == PulseEventTypes(pulse_ir)
    IN Result(
        << [event_type |-> types[1], time |-> PulseStartTime(pulse_ir, t),
            id |-> start_id, section_name |-> pulse_ir.section,
            signal |-> pulse_ir.signal, chain_element_id |-> start_id],
           [event_type |-> types[2], time |-> t + pulse_ir.length,
            id |-> end_id, section_name |-> pulse_ir.section,
            signal |-> pulse_ir.signal, chain_element_id |-> start_id] >>,
        idc + 2)

generate_event_list_acquire_group(acquire_group_ir, t, idc) ==
    LET start_id == idc
    IN Result(
        << [event_type |-> "ACQUIRE_START", time |-> t + acquire_group_ir.offset,
            id |-> start_id, section_name |-> acquire_group_ir.section,
            signal |-> acquire_group_ir.signal, chain_element_id |-> start_id],
           [event_type |-> "ACQUIRE_END", time |-> t + acquire_group_ir.length,
            id |-> idc + 1, section_name |-> acquire_group_ir.section,
            signal |-> acquire_group_ir.signal, chain_element_id |-> start_id] >>,
        idc + 2)

\* a pair whose END is chained to its own id
OscillatorStepPairOwnChain(osc_ir, t, osc, start_id) ==
    << [event_type |-> "SET_OSCILLATOR_FREQUENCY_START", time |-> t,
        iteration |-> osc_ir.iteration, section_name |-> osc_ir.section,
        oscillator_id |-> osc, id |-> start_id,
        chain_element_id |-> start_id],
       [event_type |-> "SET_OSCILLATOR_FREQUENCY_END",
        time |-> t + osc_ir.length, id |-> start_id + 1,
        chain_element_id |-> start_id + 1] >>

\* one START/END pair per (param, oscillator, value) triple
OscillatorStepPair(osc_ir, t, osc, start_id) ==
    << [event_type |-> "SET_OSCILLATOR_FREQUENCY_START", time |-> t,
        iteration |-> osc_ir.iteration, section_name |-> osc_ir.section,
        oscillator_id |-> osc, id |-> start_id,
        chain_element_id |-> start_id],
       [event_type |-> "SET_OSCILLATOR_FREQUENCY_END",
        time |-> t + osc_ir.length, id |-> start_id + 1,
        chain_element_id |-> start_id] >>

generate_event_list_oscillator_frequency_step(osc_ir, t, idc) ==
    LET n == Len(osc_ir.oscillators)
    IN Result(
        Flatten([i \in 1..n |->
            OscillatorStepPair(osc_ir, t, osc_ir.oscillators[i],
                               idc + 2 * (i - 1))]),
        idc + 2 * n)

generate_event_list_precomp_clear(precomp_ir, t, idc) ==
    Result(<< [event_type |-> "RESET_PRECOMPENSATION_FILTERS", time |-> t,
               signal_id |-> precomp_ir.signal,
               section_name |-> precomp_ir.section, id |-> idc] >>,
           idc + 1)

generate_event_list_reserve(reserve_ir, idc) == Result(<<>>, idc)

generate_event_list_phase_reset(reset_ir, t, idc) ==
    LET n == Len(reset_ir.hw_osc_devices)
        hw == [i \in 1..n |->
                 [event_type |-> "RESET_HW_OSCILLATOR_PHASE", time |-> t,
                  section_name |-> reset_ir.section, id |-> idc + i - 1,
                  device_id |-> reset_ir.hw_osc_devices[i]]]
    IN IF reset_ir.reset_sw_oscillators
       THEN Result(Append(hw,
                [event_type |-> "RESET_SW_OSCILLATOR_PHASE", time |-> t,
                 section_name |-> reset_ir.section, id |-> idc + n]),
              idc + n + 1)
       ELSE Result(hw, idc + n)

(***************************************************************************)
(* Section pieces.                                                         *)
(***************************************************************************)
\* the trigger loop of generate_event_list_section: the number of trigger
\* lines served and the budget left
RECURSIVE TriggerLoop(_, _, _)
TriggerLoop(trigger_output, i, m) ==
    IF i > Len(trigger_output) \/ m < 2
    THEN [served |-> i - 1, max_events |-> m]
    ELSE TriggerLoop(trigger_output, i + 1, m - 2)

TriggerEvent(section_ir, i, change, t) ==
    [event_type |-> "DIGITAL_SIGNAL_STATE_CHANGE",
     section_name |-> section_ir.section,
     bit |-> section_ir.trigger_output[i][2],
     signal |-> section_ir.trigger_output[i][1],
     change |-> change, time |-> t]

\* whether the section emits its PRNG_SETUP / DROP_PRNG_SETUP pair
PrngSetupEmitted(section_ir, m) == section_ir.prng_setup /\ m > 0

\* the section's list with the trigger CLEAR events ahead of DROP_PRNG_SETUP
SectionEventOrderClearFirst(section_start, trigger_set, prng_setup, children, prng_drop, trigger_clear, section_end) ==
    section_start \o trigger_set \o prng_setup \o children
        \o trigger_clear \o prng_drop \o section_end

\* the list generate_event_list_section returns, from its parts
SectionEventOrder(section_start, trigger_set, prng_setup, children, prng_drop, trigger_clear, section_end) ==
    section_start \o trigger_set \o prng_setup \o children
        \o prng_drop \o trigger_clear \o section_end

\* the dict d of generate_event_list_section
SectionCommon(section_ir, start_id) ==
    LET d == [section_name |-> section_ir.section,
              chain_element_id |-> start_id]
    IN IF Len(section_ir.trigger_output) > 0
       THEN SetField(d, "trigger_output",
                     [i \in 1..Len(section_ir.trigger_output) |->
                        section_ir.trigger_output[i][1]])
       ELSE d

SectionStartEvent(section_ir, t, start_id) ==
    [event_type |-> "SECTION_START", time |-> t, id |-> start_id]
        @@ SectionCommon(section_ir, start_id)

\* SECTION_END reusing the id of its SECTION_START
SectionEndEventSameId(section_ir, t, start_id, end_id) ==
    [event_type |-> "SECTION_END", time |-> t + section_ir.length,
     id |-> start_id] @@ SectionCommon(section_ir, start_id)

SectionEndEvent(section_ir, t, start_id, end_id) ==
    [event_type |-> "SECTION_END", time |-> t + section_ir.length,
     id |-> end_id] @@ SectionCommon(section_ir, start_id)

\* wrapping that leaves the subsection of a truncated child open
SubsectionWrapOpen(parent, t, i, child_events, start_id) ==
    LET child == parent.children[i]
        d == [section_name |-> parent.section, chain_element_id |-> start_id]
    IN << [event_type |-> "SUBSECTION_START",
           time |-> parent.children_start[i] + t,
           subsection_name |-> child.section, id |-> start_id] @@ d >>
       \o child_events \o
       (IF child_events = <<>> THEN <<>>
        ELSE << [event_type |-> "SUBSECTION_END",
                 time |-> parent.children_start[i] + child.length + t,
                 subsection_name |-> child.section, id |-> start_id + 1]
                   @@ d >>)

\* SUBSECTION_START / SUBSECTION_END around the sublist of child i
SubsectionWrap(parent, t, i, child_events, start_id) ==
    LET child == parent.children[i]
        d == [section_name |-> parent.section, chain_element_id |-> start_id]
    IN << [event_type |-> "SUBSECTION_START",
           time |-> parent.children_start[i] + t,
           subsection_name |-> child.section, id |-> start_id] @@ d >>
       \o child_events \o
       << [event_type |-> "SUBSECTION_END",
           time |-> parent.children_start[i] + child.length + t,
           subsection_name |-> child.section, id |-> start_id + 1] @@ d >>

\* one event reserved per child
SubsectionReserveOnePerChild(parent, subsection_events) ==
    IF subsection_events /\ IsSectionIR(parent)
    THEN Len(parent.children) ELSE 0

\* the budget reserved for the subsection wrappers
SubsectionReserve(parent, subsection_events) ==
    IF subsection_events /\ IsSectionIR(parent)
    THEN 2 * Len(parent.children) ELSE 0

\* the guard inverted
ChildVisitedInverted(m) == m <= 0

\* the loop guard of _children_events
ChildVisited(m) == m > 0

\* wrapping only the sublists of the children that returned events
ChildWrappedIfNotEmpty(child, child_events) ==
    IsSectionIR(child) /\ child_events # <<>>

\* whether child's sublist is wrapped in SUBSECTION_START / SUBSECTION_END
ChildWrapped(child, child_events) == IsSectionIR(child)

\* the subsection pass of _children_events
RECURSIVE WrapSubsections(_, _, _, _, _)
WrapSubsections(parent, t, i, nested, idc) ==
    IF i > Len(parent.children) THEN [nested |-> nested, idc |-> idc]
    ELSE IF ChildWrapped(parent.children[i], nested[i])
    THEN WrapSubsections(parent, t, i + 1,
            [nested EXCEPT ![i] = SubsectionWrap(parent, t, i, nested[i], idc)],
            idc + 2)
    ELSE WrapSubsections(parent, t, i + 1, nested, idc)

\* the padding of _children_events: one sublist per child
PadNested(parent, nested) ==
    nested \o [j \in 1..(Len(parent.children) - Len(nested)) |-> <<>>]

(***************************************************************************)
(* Loop and loop-iteration pieces.                                         *)
(***************************************************************************)
\* the dict `common` of generate_event_list_loop_iteration
IterationCommon(it) ==
    [section_name |-> it.section, iteration |-> it.iteration,
     nesting_level |-> 0]

\* the budget left for the children of a loop iteration
IterationChildBudget(it, m) ==
    m - Len(it.sweep_parameters) - (IF it.iteration = 0 THEN 1 ELSE 0) - 3

ParameterSetEvents(it, t) ==
    [i \in 1..Len(it.sweep_parameters) |->
        [event_type |-> "PARAMETER_SET", time |-> t,
         section_name |-> it.section, parameter |-> it.sweep_parameters[i],
         iteration |-> it.iteration]]

PrngSampleEvent(it, type, t) ==
    IF it.prng_sample # None
    THEN << [event_type |-> type, time |-> t,
             sample_name |-> it.prng_sample] @@ IterationCommon(it) >>
    ELSE <<>>

\* a LOOP_ITERATION_END for every iteration
IterationEndEventsAlways(it, end) ==
    << [event_type |-> "LOOP_ITERATION_END", time |-> end]
          @@ IterationCommon(it) >>

\* the trailing LOOP_ITERATION_END of a loop iteration
IterationEndEvents(it, end) ==
    IF it.iteration = 0
    THEN << [event_type |-> "LOOP_ITERATION_END", time |-> end]
               @@ IterationCommon(it) >>
    ELSE <<>>

\* the tagging of the events of a shadow iteration
TagShadow(it, event_list) ==
    IF it.shadow
    THEN [i \in 1..Len(event_list) |-> SetField(event_list[i], "shadow", TRUE)]
    ELSE event_list

\* the start of the prototype iteration of a compressed loop
PrototypeStart(loop_ir, t) == t + loop_ir.children_start[1]

\* iteration_start of the shadow that follows an iteration at iteration_start
NextShadowStart(iteration_start, prototype) == iteration_start + prototype.length

\* the prototype left unmarked
MarkCompressedNever(child_list) == child_list

\* iteration_event["compressed"] = True on the last event of the prototype
MarkCompressed(child_list) ==
    [child_list EXCEPT ![Len(child_list)] = SetField(@, "compressed", TRUE)]

\* nesting_level set to 1 instead of incremented
IncrementNestingToOne(event_list) ==
    [i \in 1..Len(event_list) |->
        IF Has(event_list[i], "nesting_level")
        THEN [event_list[i] EXCEPT !["nesting_level"] = 1]
        ELSE event_list[i]]

\* e["nesting_level"] += 1 on every event that carries nesting_level
IncrementNesting(event_list) ==
    [i \in 1..Len(event_list) |->
        IF Has(event_list[i], "nesting_level")
        THEN [event_list[i] EXCEPT !["nesting_level"] = @ + 1]
        ELSE event_list[i]]

\* the four events wrapping a loop
LoopCommon(loop_ir, start_id) ==
    [section_name |-> loop_ir.section, nesting_level |-> 0,
     chain_element_id |-> start_id]

\* a LOOP_START that carries the id of the loop's SECTION_START
LoopHeadEventsWithId(loop_ir, t, start_id) ==
    << [event_type |-> "SECTION_START", time |-> t, id |-> start_id]
          @@ LoopCommon(loop_ir, start_id),
       [event_type |-> "LOOP_START", time |-> t, id |-> start_id,
        iterations |-> loop_ir.iterations, compressed |-> loop_ir.compressed]
          @@ LoopCommon(loop_ir, start_id) >>

LoopHeadEvents(loop_ir, t, start_id) ==
    << [event_type |-> "SECTION_START", time |-> t, id |-> start_id]
          @@ LoopCommon(loop_ir, start_id),
       [event_type |-> "LOOP_START", time |-> t,
        iterations |-> loop_ir.iterations, compressed |-> loop_ir.compressed]
          @@ LoopCommon(loop_ir, start_id) >>

LoopTailEvents(loop_ir, t, start_id) ==
    << [event_type |-> "LOOP_END", time |-> t + loop_ir.length]
          @@ LoopCommon(loop_ir, start_id),
       [event_type |-> "SECTION_END", time |-> t + loop_ir.length]
          @@ LoopCommon(loop_ir, start_id) >>

(***************************************************************************)
(* Match / Case / EmptyBranch pieces.                                      *)
(***************************************************************************)
\* the annotation of the SECTION_START of a match
AnnotateMatch(match_ir, e) ==
    LET e1 == IF match_ir.handle # None
              THEN SetField(SetField(e, "handle", match_ir.handle),
                            "local", match_ir.local)
              ELSE e
    IN IF match_ir.prng_sample # None
       THEN SetField(e1, "prng_sample", match_ir.prng_sample) ELSE e1

\* e["state"] = case_ir.state on every event of a case
AnnotateState(case_ir, event_list) ==
    [i \in 1..Len(event_list) |-> SetField(event_list[i], "state", case_ir.state)]

\* a placeholder pair that ends where it starts
EmptyBranchDelayPairNoLength(branch_ir, t, signal, start_id) ==
    LET d == [section_name |-> branch_ir.section,
              play_wave_id |-> "EMPTY_MATCH_CASE_DELAY",
              play_wave_type |-> "EMPTY_CASE"]
    IN << [event_type |-> "DELAY_START", time |-> t, id |-> start_id,
           signal |-> signal, chain_element_id |-> start_id] @@ d,
          [event_type |-> "DELAY_END", time |-> t,
           id |-> start_id + 1, signal |-> signal,
           chain_element_id |-> start_id] @@ d >>

\* the DELAY_START / DELAY_END pair of one signal of an empty branch
EmptyBranchDelayPair(branch_ir, t, signal, start_id) ==
    LET d == [section_name |-> branch_ir.section,
              play_wave_id |-> "EMPTY_MATCH_CASE_DELAY",
              play_wave_type |-> "EMPTY_CASE"]
    IN << [event_type |-> "DELAY_START", time |-> t, id |-> start_id,
           signal |-> signal, chain_element_id |-> start_id] @@ d,
          [event_type |-> "DELAY_END", time |-> t + branch_ir.length,
           id |-> start_id + 1, signal |-> signal,
           chain_element_id |-> start_id] @@ d >>

\* the loop guard of the delay loop of an empty branch
EmptyBranchStops(m) == m <= 2

\* the delay loop of generate_event_list_empty_branch
RECURSIVE EmptyBranchDelays(_, _, _, _, _, _)
EmptyBranchDelays(branch_ir, t, i, m, idc, acc) ==
    IF i > Len(branch_ir.signals) \/ EmptyBranchStops(m)
    THEN Result(acc, idc)
    ELSE EmptyBranchDelays(branch_ir, t, i + 1, m - 2, idc + 2,
            acc \o EmptyBranchDelayPair(branch_ir, t, branch_ir.signals[i], idc))

(***************************************************************************)
(* The recursion.                                                          *)
(***************************************************************************)
RECURSIVE generate_event_list(_, _, _, _, _)
RECURSIVE VisitChildren(_, _, _, _, _, _, _)
RECURSIVE ShadowIterations(_, _, _, _, _, _, _, _)

\* the visiting loop of _children_events: children i.. with budget m
VisitChildren(parent, t, i, m, idc, expand, acc) ==
    IF i > Len(parent.children) \/ ~ChildVisited(m)
    THEN [nested |-> acc, idc |-> idc]
    ELSE LET r == generate_event_list(parent.children[i],
                      t + parent.children_start[i], m, idc, expand)
         IN VisitChildren(parent, t, i + 1, m - Len(r.ev), r.idc, expand,
                          Append(acc, r.ev))

\* _children_events after its visiting loop: the padding and the subsection
\* pass on what the loop returned
PadAndWrap(parent, t, subsection_events, visited) ==
    LET sub == subsection_events /\ IsSectionIR(parent)
        padded == PadNested(parent, visited.nested)
    IN IF sub
       THEN WrapSubsections(parent, t, 1, padded, visited.idc)
       ELSE [nested |-> padded, idc |-> visited.idc]

_children_events(parent, t, m, idc, expand, subsection_events) ==
    PadAndWrap(parent, t, subsection_events,
               VisitChildren(parent, t, 1,
                   m - SubsectionReserve(parent, subsection_events),
                   idc, expand, <<>>))

\* the budget generate_event_list_section hands to _children_events
SectionChildBudget(section_ir, m) ==
    LET trig == TriggerLoop(section_ir.trigger_output, 1, m - 2)
    IN IF PrngSetupEmitted(section_ir, trig.max_events)
       THEN trig.max_events - 2 ELSE trig.max_events

generate_event_list_section(section_ir, t, m, idc, expand) ==
    LET m1 == m - 2
        trig == TriggerLoop(section_ir.trigger_output, 1, m1)
        set_events == [i \in 1..trig.served |->
                          TriggerEvent(section_ir, i, "SET", t)]
        clear_events == [i \in 1..trig.served |->
                          TriggerEvent(section_ir, i, "CLEAR",
                                       t + section_ir.length)]
        prng == PrngSetupEmitted(section_ir, trig.max_events)
        m2 == SectionChildBudget(section_ir, m)
        idc2 == IF prng THEN idc + 2 ELSE idc
        prng_setup_events ==
            IF prng
            THEN << [event_type |-> "PRNG_SETUP", time |-> t,
                     section_name |-> section_ir.section, id |-> idc] >>
            ELSE <<>>
        prng_drop_events ==
            IF prng
            THEN << [event_type |-> "DROP_PRNG_SETUP",
                     time |-> t + section_ir.length,
                     section_name |-> section_ir.section, id |-> idc + 1] >>
            ELSE <<>>
        children == _children_events(section_ir, t, m2, idc2, expand, TRUE)
        start_id == children.idc
    IN Result(
        SectionEventOrder(
            << SectionStartEvent(section_ir, t, start_id) >>,
            set_events, prng_setup_events, Flatten(children.nested),
            prng_drop_events, clear_events,
            << SectionEndEvent(section_ir, t, start_id, start_id + 1) >>),
        start_id + 2)

generate_event_list_root(root_ir, t, m, idc, expand) ==
    LET children == _children_events(root_ir, t, m - 2, idc, expand, TRUE)
    IN Result(Flatten(children.nested), children.idc)

generate_event_list_loop_iteration(it, t, m, idc, expand) ==
    LET end == t + it.length
        children == _children_events(it, t, IterationChildBudget(it, m),
                                     idc, expand, TRUE)
        event_list ==
            << [event_type |-> "LOOP_STEP_START", time |-> t]
                  @@ IterationCommon(it) >>
            \o ParameterSetEvents(it, t)
            \o PrngSampleEvent(it, "DRAW_PRNG_SAMPLE", t)
            \o Flatten(children.nested)
            \o << [event_type |-> "LOOP_STEP_END", time |-> end]
                  @@ IterationCommon(it) >>
            \o PrngSampleEvent(it, "DROP_PRNG_SAMPLE", end)
            \o IterationEndEvents(it, end)
    IN Result(TagShadow(it, event_list), children.idc)

\* the shadow loop of generate_event_list_loop: iterations `iteration`.. after
\* the lists in children_events, the last of them generated with budget m
ShadowIterations(loop_ir, iteration, iteration_start, m, idc, expand, children_events, last_len) ==
    IF iteration > loop_ir.iterations - 1 \/ m - last_len <= 0
    THEN [nested |-> children_events, idc |-> idc]
    ELSE LET prototype == loop_ir.children[1]
             at == NextShadowStart(iteration_start, prototype)
             r == generate_event_list(
                      compressed_iteration(prototype, iteration),
                      at, m - last_len, idc, expand)
         IN ShadowIterations(loop_ir, iteration + 1, at, m - last_len, r.idc,
                             expand, Append(children_events, r.ev), Len(r.ev))

generate_event_list_loop(loop_ir, t, m, idc, expand) ==
    LET m1 == m - 3
        children ==
            IF ~loop_ir.compressed
            THEN _children_events(loop_ir, t, m1, idc, expand, FALSE)
            ELSE LET r == generate_event_list(loop_ir.children[1],
                              PrototypeStart(loop_ir, t), m1, idc, expand)
                     first == MarkCompressed(r.ev)
                 IN IF expand
                    THEN ShadowIterations(loop_ir, 1, t, m1, r.idc, expand,
                                          << first >>, Len(first))
                    ELSE [nested |-> << first >>, idc |-> r.idc]
        start_id == children.idc
    IN Result(
        LoopHeadEvents(loop_ir, t, start_id)
        \o IncrementNesting(Flatten(children.nested))
        \o LoopTailEvents(loop_ir, t, start_id),
        start_id + 1)

generate_event_list_match(match_ir, t, m, idc, expand) ==
    LET r == generate_event_list_section(match_ir, t, m, idc, expand)
    IN IF Len(r.ev) = 0 THEN r
       ELSE Result([r.ev EXCEPT ![1] = AnnotateMatch(match_ir, @)], r.idc)

generate_event_list_case(case_ir, t, m, idc, expand) ==
    LET r == generate_event_list_section(case_ir, t, m, idc, expand)
    IN Result(AnnotateState(case_ir, r.ev), r.idc)

generate_event_list_empty_branch(branch_ir, t, m, idc, expand) ==
    LET r == generate_event_list_case(branch_ir, t, m, idc, expand)
        section_start == r.ev[1]
        section_end == r.ev[Len(r.ev)]
    IN IF m <= 2
       THEN Result(<< section_start, section_end >>, r.idc)
       ELSE LET delays == EmptyBranchDelays(branch_ir, t, 1, m, r.idc, <<>>)
            IN Result(<< section_start >> \o delays.ev \o << section_end >>,
                      delays.idc)

\* the dispatch on the node's class
generate_event_list(node, t, m, idc, expand) ==
    CASE node.kind = "Section" -> generate_event_list_section(node, t, m, idc, expand)
      [] node.kind = "Root" -> generate_event_list_root(node, t, m, idc, expand)
      [] node.kind = "Loop" -> generate_event_list_loop(node, t, m, idc, expand)
      [] node.kind = "LoopIteration" ->
            generate_event_list_loop_iteration(node, t, m, idc, expand)
      [] node.kind = "Match" -> generate_event_list_match(node, t, m, idc, expand)
      [] node.kind = "Case" -> generate_event_list_case(node, t, m, idc, expand)
      [] node.kind = "EmptyBranch" ->
            generate_event_list_empty_branch(node, t, m, idc, expand)
      [] node.kind = "Pulse" -> generate_event_list_pulse(node, t, idc)
      [] node.kind = "AcquireGroup" -> generate_event_list_acquire_group(node, t, idc)
      [] node.kind = "OscillatorFrequencyStep" ->
            generate_event_list_oscillator_frequency_step(node, t, idc)
      [] node.kind = "PhaseReset" -> generate_event_list_phase_reset(node, t, idc)
      [] node.kind = "PrecompClear" -> generate_event_list_precomp_clear(node, t, idc)
      [] node.kind = "Reserve" -> generate_event_list_reserve(node, idc)

(***************************************************************************)
(* The IR trees generation is run on.  A container's length and its        *)
(* children's start offsets are those of children laid out back to back;   *)
(* a loop iteration carries the section name of its loop, a leaf that of   *)
(* its parent, every other container a name of its own (its path).         *)
(***************************************************************************)
RECURSIVE TotalLength(_)
TotalLength(children) ==
    IF children = <<>> THEN 0
    ELSE Head(children).length + TotalLength(Tail(children))

BackToBack(children) ==
    [i \in 1..Len(children) |-> TotalLength(SubSeq(children, 1, i - 1))]

WithChildren(node, children) ==
    [node EXCEPT !.children = children,
                 !.children_start = BackToBack(children),
                 !.length = TotalLength(children)]

Play == [Node("Pulse", None, 3) EXCEPT !.offset = 1, !.signal = "q0"]
Delay == [Node("Pulse", None, 2) EXCEPT !.is_delay = TRUE, !.signal = "q0"]
Acquire == [Node("Pulse", None, 4) EXCEPT !.is_acquire = TRUE, !.offset = 1,
                                          !.signal = "m0"]
AcquireGroup == [Node("AcquireGroup", None, 4) EXCEPT !.offset = 2, !.signal = "m0"]
OscillatorStep == [Node("OscillatorFrequencyStep", None, 1)
                      EXCEPT !.oscillators = <<"osc0", "osc1">>]
PhaseReset == [Node("PhaseReset", None, 0) EXCEPT !.hw_osc_devices = <<"dev0">>,
                                                  !.reset_sw_oscillators = TRUE]
PrecompClear == [Node("PrecompClear", None, 0) EXCEPT !.signal = "q0"]
Reserve == [Node("Reserve", None, 0) EXCEPT !.signal = "q0"]

Leaves == {Play, Delay, Acquire, AcquireGroup, OscillatorStep, PhaseReset,
           PrecompClear, Reserve}

Signals == <<"q0", "q1", "q2", "q3">>

TriggerOutput(n) == [i \in 1..n |-> << Signals[i], i + 2 >>]

Section(children, n_triggers, prng) ==
    [WithChildren(Node("Section", None, 0), children)
        EXCEPT !.trigger_output = TriggerOutput(n_triggers),
               !.prng_setup = prng]

Root(children) == WithChildren(Node("Root", None, 0), children)

LoopIteration(iteration, children, sweep, prng_sample) ==
    [WithChildren(Node("LoopIteration", None, 0), children)
        EXCEPT !.iteration = iteration, !.sweep_parameters = sweep,
               !.prng_sample = prng_sample]

\* a compressed loop: only the prototype iteration is a child
CompressedLoop(iterations, prototype, child_offset) ==
    [Node("Loop", None, child_offset + iterations * prototype.length)
        EXCEPT !.children = << prototype >>,
               !.children_start = << child_offset >>,
               !.iterations = iterations, !.compressed = TRUE]

\* an unrolled loop: every iteration is a child
UnrolledLoop(iterations, children, sweep) ==
    [WithChildren(Node("Loop", None, 0),
                  [i \in 1..iterations |->
                      LoopIteration(i - 1, children, sweep, None)])
        EXCEPT !.iterations = iterations]

Case(state, children) ==
    [WithChildren(Node("Case", None, 0), children) EXCEPT !.state = state]

EmptyBranch(state, n_signals, length) ==
    [Node("EmptyBranch", None, length)
        EXCEPT !.state = state, !.signals = SubSeq(Signals, 1, n_signals)]

\* the children of a match all start at the match's start
Match(handle, cases) ==
    [Node("Match", None, 4) EXCEPT !.children = cases,
        !.children_start = [i \in 1..Len(cases) |-> 0],
        !.handle = handle, !.local = TRUE]

RECURSIVE Named(_, _, _)
Named(node, path, parent_name) ==
    LET name == IF node.kind \in {"Root", "Section", "Loop", "Match", "Case",
                                  "EmptyBranch"}
                THEN path ELSE parent_name
    IN [node EXCEPT !.section = name,
           !.children = [i \in 1..Len(node.children) |->
                            Named(node.children[i], Append(path, i), name)]]

\* loops of every iteration count, compressed with and without a child offset
Loops ==
    UNION { { CompressedLoop(n, LoopIteration(0, << Play >>, << "par0" >>, None), 0),
              CompressedLoop(n, LoopIteration(0, << Section(<< Delay >>, 0, FALSE) >>,
                                              <<>>, "prng0"), 1),
              CompressedLoop(n, LoopIteration(0,
                    << CompressedLoop(2, LoopIteration(0, << Play >>, <<>>, None), 0) >>,
                    <<>>, None), 0),
              UnrolledLoop(n, << Play >>, << "par0" >>),
              UnrolledLoop(n, << CompressedLoop(2,
                    LoopIteration(0, << Play >>, <<>>, "prng0"), 0) >>, <<>>),
              UnrolledLoop(n, << Section(<< Acquire >>, 0, FALSE), OscillatorStep >>,
                           <<>>) }
            : n \in 1..MaxIterations }

\* matches whose last case is an empty branch of every signal count, and a
\* match nested in a case of a match
Matches ==
    { Match("h1", << Case(0, << Play, Section(<< Delay >>, 0, FALSE) >>),
                     EmptyBranch(1, n, 4) >>) : n \in 0..MaxSignals }
    \cup { Match("h1", << Case(0, << Match("h2", << Case(1, << Play >>),
                                                   Case(0, << Delay >>) >>) >>),
                          Case(1, << Delay >>) >>) }

EmptyBranches == { EmptyBranch(1, n, 4) : n \in 0..MaxSignals }

\* sections of leaves, with trigger lines and a PRNG setup
LeafSections ==
    { Section(<<>>, n, p) : n \in 0..MaxSignals, p \in BOOLEAN }
    \cup { [Section(<<>>, 1, FALSE) EXCEPT !.length = 100],
           Section(<< Play, Acquire >>, 1, FALSE),
           Section(<< Reserve, PhaseReset, PrecompClear, AcquireGroup >>, 0, TRUE),
           Section(<< Delay, OscillatorStep, Play >>, MaxSignals, TRUE) }

\* what a top-level section or root holds
Members ==
    { Play, OscillatorStep,
      Section(<<>>, 0, FALSE),
      Section(<< Play, Section(<< Delay >>, 0, FALSE) >>, 1, FALSE),
      CompressedLoop(2, LoopIteration(0, << Play >>, << "par0" >>, None), 0),
      UnrolledLoop(2, << Delay >>, <<>>),
      Match("h1", << Case(0, << Play >>), EmptyBranch(1, 1, 3) >>) }

MemberLists ==
    { <<>> } \cup { << a >> : a \in Members }
    \cup { << a, b >> : a \in Members, b \in Members }
    \cup { << Section(<< Play >>, 0, FALSE), a, Section(<< Delay >>, 0, FALSE) >>
             : a \in Members }

IRTrees ==
    { Named(n, << 0 >>, << 0 >>) :
        n \in Leaves \cup Loops \cup Matches \cup EmptyBranches \cup LeafSections
              \cup { Section(l, 0, FALSE) : l \in MemberLists }
              \cup { Section(l, 1, TRUE) : l \in MemberLists }
              \cup { Root(l) : l \in MemberLists } }

Budgets == (-2)..MaxBudget \cup {Unlimited}

(***************************************************************************)
(* The state machine: one top-level call of generate_event_list.           *)
(***************************************************************************)
Init ==
    /\ ir \in IRTrees
    /\ start \in {0, 5}
    /\ max_events \in Budgets
    /\ expand_loops \in BOOLEAN
    /\ id_tracker = 0
    /\ events = <<>>
    /\ pc = "ready"
    /\ flattening = None
    /\ schedule_data = None
    /\ match_schedule = None
    /\ start_may_change = FALSE
    /\ timing = None

\* events = generate_event_list(ir, start, max_events, id_tracker, expand_loops)
Generate ==
    /\ pc = "ready"
    /\ LET r == generate_event_list(ir, start, max_events, id_tracker, expand_loops)
       IN /\ events' = r.ev
          /\ id_tracker' = r.idc
    /\ pc' = "done"
    /\ UNCHANGED <<ir, start, max_events, expand_loops, flattening>>
    /\ UNCHANGED timing_vars

\* the nodes that hold children
ContainerKinds ==
    {"Root", "Section", "Loop", "LoopIteration", "Match", "Case", "EmptyBranch"}

\* what a call _children_events(ir, start, max_events, id_tracker,
\* expand_loops, subsection_events) returns, with the number of children its
\* loop visited
ChildrenEventsCall(subsection_events) ==
    LET visited == VisitChildren(ir, start, 1,
                       max_events - SubsectionReserve(ir, subsection_events),
                       id_tracker, expand_loops, <<>>)
        r == PadAndWrap(ir, start, subsection_events, visited)
    IN [subsection_events |-> subsection_events, nested |-> r.nested,
        visited |-> Len(visited.nested), id_tracker |-> r.idc]

\* flattening = the call's record, for either value of subsection_events
FlattenChildren ==
    /\ pc = "ready"
    /\ ir.kind \in ContainerKinds
    /\ \E subsection_events \in BOOLEAN :
          flattening' = ChildrenEventsCall(subsection_events)
    /\ id_tracker' = flattening'.id_tracker
    /\ pc' = "flattened"
    /\ UNCHANGED <<ir, start, max_events, expand_loops, events>>
    /\ UNCHANGED timing_vars

Next == Generate \/ FlattenChildren

Spec == Init /\ [][Next]_vars

(***************************************************************************)
(* Match timing resolution (laboneq/compiler/new_scheduler/                *)
(* match_schedule.py).                                                     *)
(*                                                                         *)
(* Times of the schedule (start, absolute_start, length, grid) are         *)
(* integers in tinysamples.  The quantities Python holds as floats in      *)
(* seconds (the delays of a signal) are integers in half tinysamples, so   *)
(* that dividing by TINYSAMPLE or multiplying by a rate is a division that *)
(* rounds as Python's round does; a rate is in samples per second, with    *)
(* TinysamplesPerSecond tinysamples in a second.  Floating-point error is  *)
(* not modelled.                                                           *)
(***************************************************************************)
Max(a, b) == IF a >= b THEN a ELSE b

\* Python's round(n / d), n >= 0 and d > 0: to the nearest integer, a tie to
\* the even one
round(n, d) ==
    LET q == n \div d
        r == n % d
    IN IF 2 * r < d THEN q
       ELSE IF 2 * r > d THEN q + 1
       ELSE IF q % 2 = 0 THEN q ELSE q + 1

\* math.ceil(n / d), d > 0
ceil(n, d) == -((-n) \div d)

\* utils.ceil_to_grid: the least multiple of grid that is >= value
ceil_to_grid(value, grid) == value + ((-value) % grid)

\* `x or 0.0` on an optional attribute
Or0(obj, attribute) == IF Has(obj, attribute) THEN obj[attribute] ELSE 0

\* round(seconds * rate), seconds given in half tinysamples
SecondsToSamples(seconds, rate) == round(seconds * rate, 2 * TinysamplesPerSecond)

\* round(seconds / TINYSAMPLE), seconds given in half tinysamples
SecondsToTinysamples(seconds) == round(seconds, 2)

RECURSIVE SumSamples(_, _)
SumSamples(port_delays, sample_frequency_hz) ==
    IF port_delays = <<>> THEN 0
    ELSE SecondsToSamples(Head(port_delays), sample_frequency_hz)
         + SumSamples(Tail(port_delays), sample_frequency_hz)

_get_total_rounded_delay_samples(port_delays, sample_frequency_hz, granularity_samples) ==
    LET delay == SumSamples(port_delays, sample_frequency_hz)
    IN (ceil(2 * delay + granularity_samples, 2 * granularity_samples) - 1)
           * granularity_samples

\* schedule_data.acquire_pulses.get(handle), None as the empty list
AcquireGet(acquire_pulses, handle) ==
    IF handle \in DOMAIN acquire_pulses THEN acquire_pulses[handle] ELSE <<>>

\* the first acquisition registered for the handle
FirstAcquire(acquire_pulse) == acquire_pulse[1]

\* acquire_pulse[-1]
LastAcquire(acquire_pulse) == acquire_pulse[Len(acquire_pulse)]

\* the readout class of the latency model, None if it has none
toolkit_qatype(qa_signal_obj) ==
    IF qa_signal_obj.is_qc THEN "SHFQC"
    ELSE CASE qa_signal_obj.device_type.str_value = "shfqa" -> "SHFQA"
           [] qa_signal_obj.device_type.str_value = "shfqc" -> "SHFQC"
           [] OTHER -> None

\* the generator class of the latency model; the dict lookup raises KeyError
\* for every other device type
toolkit_sgtype(sg_signal_obj) ==
    IF sg_signal_obj.is_qc THEN "SHFQC"
    ELSE CASE sg_signal_obj.device_type.str_value = "hdawg" -> "HDAWG"
           [] sg_signal_obj.device_type.str_value = "shfsg" -> "SHFSG"
           [] sg_signal_obj.device_type.str_value = "shfqc" -> "SHFQC"
           [] OTHER -> "KeyError"

\* the end of the integration in samples from the trigger
acquire_end_in_samples(acquire_pulse, qa_signal_obj) ==
    LET qa_sampling_rate == qa_signal_obj.sampling_rate
        acq_start == 2 * acquire_pulse.absolute_start
        acq_length == 2 * acquire_pulse.length
        qa_total_port_delay ==
            _get_total_rounded_delay_samples(
                << Or0(qa_signal_obj, "base_port_delay"),
                   Or0(qa_signal_obj, "port_delay") >>,
                qa_sampling_rate, qa_signal_obj.device_type.sample_multiple)
    IN SecondsToSamples(acq_start + acq_length
                          + Or0(qa_signal_obj, "start_delay")
                          + Or0(qa_signal_obj, "delay_signal")
                          + Or0(qa_signal_obj, "base_delay_signal"),
                        qa_sampling_rate)
       + qa_total_port_delay

\* sg_seq_dt_for_latency_in_ts of a signal
SeqDtForLatency(data, sg_signal_obj) ==
    round(TinysamplesPerSecond, 2 * data.sequencer_rate[sg_signal_obj.device_id])

\* the shift of compiler zero time of a signal, in tinysamples
SignalShift(sg_signal_obj) ==
    SecondsToTinysamples(Or0(sg_signal_obj, "start_delay")
                           + Or0(sg_signal_obj, "delay_signal"))

\* the shift added to the time of arrival
ExecuteTableEntryShiftAdded(data, signal, time_of_arrival_at_register, grid) ==
    LET sg_signal_obj == data.signal_objects[signal]
        latency_in_ts == time_of_arrival_at_register
                           * SeqDtForLatency(data, sg_signal_obj)
    IN ceil_to_grid(latency_in_ts + SignalShift(sg_signal_obj), grid)

\* the time of arrival less the shift, not rounded to the grid
ExecuteTableEntryUnrounded(data, signal, time_of_arrival_at_register, grid) ==
    LET sg_signal_obj == data.signal_objects[signal]
        latency_in_ts == time_of_arrival_at_register
                           * SeqDtForLatency(data, sg_signal_obj)
    IN latency_in_ts - SignalShift(sg_signal_obj)

\* what one signal contributes to earliest_execute_table_entry
ExecuteTableEntry(data, signal, time_of_arrival_at_register, grid) ==
    LET sg_signal_obj == data.signal_objects[signal]
        latency_in_ts == time_of_arrival_at_register
                           * SeqDtForLatency(data, sg_signal_obj)
    IN ceil_to_grid(latency_in_ts - SignalShift(sg_signal_obj), grid)

\* the loop over the signals: earliest_execute_table_entry after signals i..
\* get_latency holds, for each generator class, the latency the feedback
\* model returns for the call's readout class, path and readout end
RECURSIVE EarliestExecuteTableEntry(_, _, _, _, _, _)
EarliestExecuteTableEntry(data, signals, i, grid, get_latency, earliest) ==
    IF i > Len(signals) THEN earliest
    ELSE LET toolkit == toolkit_sgtype(data.signal_objects[signals[i]])
         IN EarliestExecuteTableEntry(data, signals, i + 1, grid, get_latency,
                Max(earliest,
                    ExecuteTableEntry(data, signals[i], get_latency[toolkit],
                                      grid)))

\* the earliest entry returned without regard to the proposed start
ResolvedStartIgnoringProposed(earliest_execute_table_entry, t) ==
    earliest_execute_table_entry

\* the value _compute_start_with_latency returns
ResolvedStart(earliest_execute_table_entry, t) ==
    Max(earliest_execute_table_entry, t)

\* the signals whose generator class the lookup does not hold
UnsupportedGenerators(data, signals) ==
    { i \in 1..Len(signals) :
        toolkit_sgtype(data.signal_objects[signals[i]]) = "KeyError" }

\* the outcome of a call: an exception, or the value returned
Raise(exception) == [exception |-> exception]

Raised(outcome) == Has(outcome, "exception")

_compute_start_with_latency(data, t, local, handle, section, signals, grid, get_latency) ==
    LET registered == AcquireGet(data.acquire_pulses, handle)
    IN IF registered = <<>> THEN Raise("No acquire found")
       ELSE
       LET acquire_pulse == LastAcquire(registered)
       IN IF ~Has(acquire_pulse, "absolute_start")
          THEN Raise("acquire not scheduled")
          ELSE
          LET qa_signal_obj == data.signal_objects[acquire_pulse.signal_id]
          IN IF toolkit_qatype(qa_signal_obj) = None
             THEN Raise("Feedback not supported")
             ELSE IF UnsupportedGenerators(data, signals) # {}
             THEN Raise("KeyError")
             ELSE [start |-> ResolvedStart(
                                EarliestExecuteTableEntry(data, signals, 1,
                                    grid, get_latency, 0), t),
                   acquire_pulse |-> acquire_pulse,
                   acquire_end_in_samples |->
                       acquire_end_in_samples(acquire_pulse, qa_signal_obj)]

\* CaseSchedule.calculate_timing: a case starts where its match starts
CaseCalculateTiming(c, data, t, may_change) == t

\* MatchSchedule._calculate_timing: the exception raised, or the start
\* returned with the starts handed to the children and whether the length
\* was calculated
_calculate_timing(self, data, t, may_change, get_latency) ==
    IF may_change
    THEN [exception |-> "start may change", acquire_lookup |-> FALSE,
          child_start |-> <<>>, length_calculated |-> FALSE]
    ELSE
    LET r == _compute_start_with_latency(data, t, self.local, self.handle,
                 self.section, self.signals, self.grid, get_latency)
    IN IF Raised(r)
       THEN [exception |-> r.exception, acquire_lookup |-> TRUE,
             child_start |-> <<>>, length_calculated |-> FALSE]
       ELSE
       LET child_start ==
               [i \in 1..Len(self.children) |->
                   CaseCalculateTiming(self.children[i], data, r.start,
                                       may_change)]
       IN IF \E i \in 1..Len(child_start) : child_start[i] # r.start
          THEN [exception |-> "AssertionError", acquire_lookup |-> TRUE,
                child_start |-> child_start, length_calculated |-> FALSE]
          ELSE [start |-> r.start, acquire_lookup |-> TRUE,
                acquire_pulse |-> r.acquire_pulse,
                acquire_end_in_samples |-> r.acquire_end_in_samples,
                child_start |-> child_start, length_calculated |-> TRUE]

(***************************************************************************)
(* The schedule data timing resolution is run on.                          *)
(***************************************************************************)
DeviceType(str_value, sample_multiple) ==
    [str_value |-> str_value, sample_multiple |-> sample_multiple]

SignalObject(device_id, device_type, is_qc, sampling_rate) ==
    [device_id |-> device_id, device_type |-> device_type, is_qc |-> is_qc,
     sampling_rate |-> sampling_rate]

\* attribute set where delay holds a delay, left None where it is empty
WithDelay(obj, attribute, delay) ==
    IF delay = << >> THEN obj ELSE SetField(obj, attribute, delay[1])

\* the generator signals: an HDAWG, an SHFSG, the generator channel of an
\* SHFQC and, not a generator the latency model knows, a UHFQA
GeneratorSignals == {"q0", "q1", "q2", "q3"}

\* the acquisition signals: an SHFQA, a UHFQA, the readout channel of an SHFQC
AcquireSignals == {"m0", "m1", "m2"}

SignalObjects(lead, delay) ==
    [q0 |-> WithDelay(SignalObject("dev_hd", DeviceType("hdawg", 16), FALSE, 8),
                      "start_delay", lead),
     q1 |-> WithDelay(SignalObject("dev_sg", DeviceType("shfsg", 16), FALSE, 6),
                      "delay_signal", delay),
     q2 |-> WithDelay(WithDelay(
                SignalObject("dev_qc", DeviceType("shfsg", 16), TRUE, 6),
                "start_delay", lead), "delay_signal", delay),
     q3 |-> SignalObject("dev_uhf", DeviceType("uhfqa", 8), FALSE, 4),
     m0 |-> WithDelay(WithDelay(
                SignalObject("dev_qa", DeviceType("shfqa", 4), FALSE, 6),
                "start_delay", << 4 >>), "port_delay", << 5 >>),
     m1 |-> SignalObject("dev_uhf", DeviceType("uhfqa", 8), FALSE, 4),
     m2 |-> WithDelay(WithDelay(
                SignalObject("dev_qc", DeviceType("shfqa", 4), TRUE, 6),
                "delay_signal", << 3 >>), "base_port_delay", << 7 >>)]

\* sampling_rate_tracker.sequencer_rate_for_device
SequencerRates == [dev_hd |-> 2, dev_sg |-> 3, dev_qc |-> 4, dev_uhf |-> 1]

AcquirePulse(signal_id, absolute_start, length) ==
    [signal_id |-> signal_id, absolute_start |-> absolute_start,
     length |-> length]

\* an acquire whose start is not resolved
UnresolvedAcquire(signal_id, length) ==
    [signal_id |-> signal_id, length |-> length]

\* the acquire pulses registered: none, none for the handle, and lists whose
\* last acquire differs from the ones before it
AcquireRegistries ==
    { << >>,
      [h1 |-> << >>],
      [h1 |-> << UnresolvedAcquire("m0", 8) >>],
      [h1 |-> << AcquirePulse("m0", 2, 8) >>],
      [h1 |-> << AcquirePulse("m2", 2, 8) >>],
      [h1 |-> << AcquirePulse("m1", 2, 8) >>],
      [h1 |-> << UnresolvedAcquire("m0", 8), AcquirePulse("m0", 5, 8) >>],
      [h1 |-> << AcquirePulse("m0", 2, 8), UnresolvedAcquire("m0", 8) >>],
      [h1 |-> << AcquirePulse("m1", 2, 8), AcquirePulse("m2", 6, 9) >>],
      [h1 |-> << AcquirePulse("m0", 2, 8), AcquirePulse("m1", 6, 8) >>] }

ScheduleData ==
    { [acquire_pulses |-> a, signal_objects |-> SignalObjects(lead, delay),
       sequencer_rate |-> SequencerRates] :
        a \in AcquireRegistries, lead \in {<< >>, << 4 >>}, delay \in {<< >>, << 3 >>} }

\* the signals of a match, in order
SignalLists ==
    { << >> } \cup { << a >> : a \in GeneratorSignals }
    \cup { p \in GeneratorSignals \X GeneratorSignals : p[1] # p[2] }

MatchSchedules ==
    { [section |-> "match0", handle |-> "h1", local |-> local,
       signals |-> signals, grid |-> grid,
       children |-> << [state |-> 0], [state |-> 1] >>] :
        local \in BOOLEAN, signals \in SignalLists, grid \in {1, 4, 8} }

\* the latencies the feedback model can return for the generator classes of
\* the signals of a match
Latencies(data, signals) ==
    [ { toolkit_sgtype(data.signal_objects[signals[i]]) : i \in 1..Len(signals) }
        \ {"KeyError"} -> 0..MaxLatency ]

(***************************************************************************)
(* The state machine: one call of MatchSchedule._calculate_timing.         *)
(***************************************************************************)
MatchInit ==
    /\ schedule_data \in ScheduleData
    /\ match_schedule \in MatchSchedules
    /\ start \in {0, 3, 8, 13}
    /\ start_may_change \in BOOLEAN
    /\ timing = None
    /\ pc = "ready"
    /\ ir = None
    /\ max_events = 0
    /\ expand_loops = FALSE
    /\ id_tracker = 0
    /\ events = <<>>
    /\ flattening = None

\* whether the call gets to ask the feedback model
AsksFeedbackModel ==
    /\ ~start_may_change
    /\ ~Raised(_compute_start_with_latency(schedule_data, start,
           match_schedule.local, match_schedule.handle, match_schedule.section,
           match_schedule.signals, match_schedule.grid,
           [t \in {"HDAWG", "SHFSG", "SHFQC"} |-> 0]))

\* timing = match_schedule._calculate_timing(schedule_data, start,
\*                                           start_may_change)
CalculateTiming ==
    /\ pc = "ready"
    /\ \E get_latency \in
            IF AsksFeedbackModel
            THEN Latencies(schedule_data, match_schedule.signals)
            ELSE { << >> } :
          LET r == _calculate_timing(match_schedule, schedule_data, start,
                                     start_may_change, get_latency)
          IN timing' = SetField(r, "get_latency", get_latency)
    /\ pc' = IF Raised(timing') THEN "raised" ELSE "returned"
    /\ UNCHANGED <<start, schedule_data, match_schedule, start_may_change>>
    /\ UNCHANGED generation_vars

MatchNext == CalculateTiming

MatchSpec == MatchInit /\ [][MatchNext]_vars

(***************************************************************************)
(* Vocabulary of the properties.                                           *)
(***************************************************************************)
Done == pc = "done"

\* the list the same call returns when the budget never truncates
Untruncated ==
    generate_event_list(ir, start, Unlimited, 0, expand_loops).ev

Truncated == Len(events) < Len(Untruncated)

\* the END type of every structurally paired START type
EndOf ==
    [SECTION_START |-> "SECTION_END", SUBSECTION_START |-> "SUBSECTION_END",
     LOOP_START |-> "LOOP_END", LOOP_STEP_START |-> "LOOP_STEP_END",
     PLAY_START |-> "PLAY_END", DELAY_START |-> "DELAY_END",
     ACQUIRE_START |-> "ACQUIRE_END",
     SET_OSCILLATOR_FREQUENCY_START |-> "SET_OSCILLATOR_FREQUENCY_END"]

StartTypes == DOMAIN EndOf
EndTypes == { EndOf[s] : s \in StartTypes }

\* what identifies the node of a paired event: the id of its START where the
\* pair carries one, else the section and iteration it names
NodeKey(e) ==
    IF Has(e, "chain_element_id") THEN << "chain", e.chain_element_id >>
    ELSE << "step", e.section_name, e.iteration, Has(e, "shadow") >>

\* every END closes the innermost open START, of its own node, and nothing
\* stays open: open is the stack of the <<END type, node>> still expected
RECURSIVE Balanced(_, _, _)
Balanced(list, i, open) ==
    IF i > Len(list) THEN open = <<>>
    ELSE LET e == list[i] IN
         IF e.event_type \in StartTypes
         THEN Balanced(list, i + 1,
                       << << EndOf[e.event_type], NodeKey(e) >> >> \o open)
         ELSE IF e.event_type \in EndTypes
         THEN /\ open # <<>>
              /\ Head(open) = << e.event_type, NodeKey(e) >>
              /\ Balanced(list, i + 1, Tail(open))
         ELSE Balanced(list, i + 1, open)

\* the positions of the events of a type that name a section
Positions(type, section) ==
    { i \in 1..Len(events) :
        /\ events[i].event_type = type
        /\ Has(events[i], "section_name")
        /\ events[i].section_name = section }

(***************************************************************************)
(* C1                                                                      *)
(***************************************************************************)
\* C1 as stated: the ids of the returned events are strictly increasing in
\* list order.
C1_IdsIncreasingInListOrder ==
    Done => \A i, j \in 1..Len(events) :
                (i < j /\ Has(events[i], "id") /\ Has(events[j], "id"))
                    => events[i].id < events[j].id

\* C1 amended: no id value occurs twice in the returned list, and every id is
\* one the call drew from the counter; list order is not id order, since a
\* container draws the id of its START after its descendants drew theirs.
C1_IdsUnique ==
    Done => \A i, j \in 1..Len(events) :
                (Has(events[i], "id") /\ Has(events[j], "id"))
                    => /\ (i # j => events[i].id # events[j].id)
                       /\ events[i].id >= 0
                       /\ events[i].id < id_tracker

\* a section whose child's events precede, by id, the section's own START
C1_Witness ==
    /\ Done
    /\ \E i, j \in 1..Len(events) :
          /\ i < j
          /\ events[i].event_type = "SECTION_START"
          /\ Has(events[j], "id")
          /\ events[j].id < events[i].id

(***************************************************************************)
(* C2                                                                      *)
(***************************************************************************)
\* C2: under every budget the returned list is bracket-balanced: every START
\* of a paired kind is closed later by the END of the same node, the pairs
\* are properly nested and no START is left open.
C2_BracketBalanced == Done => Balanced(events, 1, <<>>)

\* a truncated list that still holds nested pairs
C2_Witness ==
    /\ Done
    /\ Truncated
    /\ max_events <= 0
    /\ \E i \in 1..Len(events) : events[i].event_type = "SUBSECTION_START"
    /\ \E i \in 1..Len(events) : events[i].event_type = "LOOP_STEP_START"

(***************************************************************************)
(* C3                                                                      *)
(***************************************************************************)
\* the START at i carries its own id as chain_element_id and exactly one END
\* of its kind carries that chain_element_id, at a time not before the START
ChainPaired(i) ==
    LET e == events[i]
        ends == { j \in 1..Len(events) :
                    /\ events[j].event_type = EndOf[e.event_type]
                    /\ Has(events[j], "chain_element_id")
                    /\ events[j].chain_element_id = e.chain_element_id }
    IN /\ Has(e, "id")
       /\ Has(e, "chain_element_id")
       /\ e.chain_element_id = e.id
       /\ Cardinality(ends) = 1
       /\ \A j \in ends : j > i /\ events[j].time >= e.time

\* C3 as stated: every START of a paired kind, LOOP and LOOP_STEP included,
\* is chained to exactly one END by its own id.
C3_EveryStartChained ==
    Done => \A i \in 1..Len(events) :
                events[i].event_type \in StartTypes => ChainPaired(i)

ChainedStartTypes == StartTypes \ {"LOOP_START", "LOOP_STEP_START"}

\* C3 amended: the STARTs of SECTION, SUBSECTION, PLAY, DELAY, ACQUIRE and
\* SET_OSCILLATOR_FREQUENCY carry their own id as chain_element_id and are
\* chained to exactly one END, not earlier in time; LOOP_START and LOOP_END
\* carry no id and the chain_element_id of the loop's SECTION_START;
\* LOOP_STEP_START and LOOP_STEP_END carry neither.
C3_ChainedKinds ==
    Done => \A i \in 1..Len(events) :
        LET e == events[i] IN
        /\ e.event_type \in ChainedStartTypes => ChainPaired(i)
        /\ e.event_type = "LOOP_START" =>
              /\ ~Has(e, "id")
              /\ i > 1
              /\ events[i - 1].event_type = "SECTION_START"
              /\ events[i - 1].id = e.chain_element_id
              /\ \E j \in 1..Len(events) :
                    /\ j > i
                    /\ events[j].event_type = "LOOP_END"
                    /\ events[j].chain_element_id = e.chain_element_id
                    /\ ~Has(events[j], "id")
                    /\ events[j].time >= e.time
        /\ e.event_type \in {"LOOP_STEP_START", "LOOP_STEP_END"} =>
              ~Has(e, "id") /\ ~Has(e, "chain_element_id")

\* a list holding a chained pair of every chained kind reachable together
\* with a loop
C3_Witness ==
    /\ Done
    /\ \E i \in 1..Len(events) : events[i].event_type = "LOOP_STEP_START"
    /\ \E i \in 1..Len(events) : events[i].event_type = "SUBSECTION_START"
    /\ \E i \in 1..Len(events) : events[i].event_type = "ACQUIRE_START"
    /\ \E i \in 1..Len(events) :
          events[i].event_type = "SET_OSCILLATOR_FREQUENCY_START"

(***************************************************************************)
(* C4                                                                      *)
(***************************************************************************)
\* C4 as stated: every returned event carries event_type, time and id.
C4_EveryEventHasId ==
    Done => \A i \in 1..Len(events) :
                {"event_type", "time", "id"} \subseteq DOMAIN events[i]

\* the event types generated without an id
TypesWithoutId ==
    {"DIGITAL_SIGNAL_STATE_CHANGE", "LOOP_START", "LOOP_END",
     "LOOP_STEP_START", "LOOP_STEP_END", "LOOP_ITERATION_END", "PARAMETER_SET",
     "DRAW_PRNG_SAMPLE", "DROP_PRNG_SAMPLE"}

\* the SECTION_END of a loop (the one carrying nesting_level and closing the
\* SECTION_START right before a LOOP_START)
IsLoopSectionEnd(i) ==
    /\ events[i].event_type = "SECTION_END"
    /\ i > 1
    /\ events[i - 1].event_type = "LOOP_END"
    /\ events[i - 1].chain_element_id = events[i].chain_element_id

\* C4 amended: every returned event carries event_type and time; it carries
\* id unless it is a DIGITAL_SIGNAL_STATE_CHANGE, LOOP_START, LOOP_END,
\* LOOP_STEP_START, LOOP_STEP_END, LOOP_ITERATION_END, PARAMETER_SET,
\* DRAW_PRNG_SAMPLE or DROP_PRNG_SAMPLE event or the SECTION_END of a loop,
\* which never do.
C4_TypeTimeAndIdWhereDrawn ==
    Done => \A i \in 1..Len(events) :
        /\ {"event_type", "time"} \subseteq DOMAIN events[i]
        /\ Has(events[i], "id") <=>
              ~(events[i].event_type \in TypesWithoutId \/ IsLoopSectionEnd(i))

\* a list with loop, trigger and parameter events beside events with ids
C4_Witness ==
    /\ Done
    /\ \E i \in 1..Len(events) : events[i].event_type = "PARAMETER_SET"
    /\ \E i \in 1..Len(events) : events[i].event_type = "LOOP_ITERATION_END"
    /\ \E i \in 1..Len(events) :
          events[i].event_type = "DIGITAL_SIGNAL_STATE_CHANGE"
    /\ \E i \in 1..Len(events) : events[i].event_type = "PLAY_START"

(***************************************************************************)
(* C5                                                                      *)
(***************************************************************************)
\* C5 as stated: a call with budget max_events >= 0 returns at most
\* max_events events.
C5_AtMostBudgetEvents ==
    (Done /\ max_events >= 0) => Len(events) <= max_events

\* C5 amended: the budget only truncates: under every budget the call
\* returns at most as many events as it returns when the budget is never
\* exhausted.  It is no upper bound on the list: a section returns its
\* SECTION_START and SECTION_END and a leaf all its events whatever the
\* budget.
C5_AtMostUntruncatedEvents ==
    Done => /\ Len(events) <= Len(Untruncated)
            /\ IsSectionIR(ir) => Len(events) >= 2

\* a call whose list is truncated and still longer than its budget
C5_Witness ==
    /\ Done
    /\ max_events >= 0
    /\ Truncated
    /\ Len(events) > max_events

(***************************************************************************)
(* C6                                                                      *)
(***************************************************************************)
\* the indices of the Section-typed children of the node, in child order
RECURSIVE SectionChildren(_, _)
SectionChildren(node, i) ==
    IF i > Len(node.children) THEN <<>>
    ELSE IF IsSectionIR(node.children[i])
    THEN << i >> \o SectionChildren(node, i + 1)
    ELSE SectionChildren(node, i + 1)

\* the events of a type naming a section, in list order
RECURSIVE Select(_, _, _, _)
Select(list, i, type, section) ==
    IF i > Len(list) THEN <<>>
    ELSE IF /\ list[i].event_type = type
            /\ Has(list[i], "section_name")
            /\ list[i].section_name = section
    THEN << i >> \o Select(list, i + 1, type, section)
    ELSE Select(list, i + 1, type, section)

\* the number of children of the top-level section that were visited
VisitedChildren ==
    Len(VisitChildren(ir, start, 1,
            SectionChildBudget(ir, max_events) - SubsectionReserve(ir, TRUE),
            0, expand_loops, <<>>).nested)

\* C6: a Section with N Section-typed children returns, under every budget,
\* exactly N SUBSECTION_START and N SUBSECTION_END events of its own, one
\* pair per Section-typed child in child order naming that child, and the
\* pair of a child that was not visited encloses nothing.
C6_OneSubsectionPairPerSectionChild ==
    (Done /\ ir.kind = "Section") =>
        LET kids == SectionChildren(ir, 1)
            starts == Select(events, 1, "SUBSECTION_START", ir.section)
            ends == Select(events, 1, "SUBSECTION_END", ir.section)
        IN /\ Len(starts) = Len(kids)
           /\ Len(ends) = Len(kids)
           /\ \A k \in 1..Len(kids) :
                 /\ events[starts[k]].subsection_name
                        = ir.children[kids[k]].section
                 /\ events[ends[k]].subsection_name
                        = ir.children[kids[k]].section
                 /\ starts[k] < ends[k]
                 /\ k < Len(kids) => ends[k] < starts[k + 1]
                 /\ kids[k] > VisitedChildren => ends[k] = starts[k] + 1

\* a section with two Section-typed children, the first visited and the
\* second not
C6_Witness ==
    /\ Done
    /\ ir.kind = "Section"
    /\ Len(SectionChildren(ir, 1)) >= 2
    /\ VisitedChildren >= 1
    /\ VisitedChildren < Len(ir.children)
    /\ IsSectionIR(ir.children[Len(ir.children)])

(***************************************************************************)
(* C7                                                                      *)
(***************************************************************************)
\* the top-level node is a compressed loop
CompressedLoopCall == ir.kind = "Loop" /\ ir.compressed

\* the iteration blocks of the top-level loop: the positions of its
\* LOOP_STEP_START and LOOP_STEP_END events
LoopStepStarts == Select(events, 1, "LOOP_STEP_START", ir.section)
LoopStepEnds == Select(events, 1, "LOOP_STEP_END", ir.section)

\* every event of the block that starts at `from`, its trailing events up to
\* the next block or the LOOP_END included, carries shadow = true
BlockIsShadow(k) ==
    LET from == LoopStepStarts[k]
        to == IF k < Len(LoopStepStarts) THEN LoopStepStarts[k + 1] - 1
              ELSE Len(events) - 2
    IN \A i \in from..to : Has(events[i], "shadow") /\ events[i].shadow = TRUE

\* C7: an expanded compressed loop of n iterations and prototype length L,
\* not truncated, returns n iteration blocks; the prototype starts at the
\* loop start plus its child offset, each shadow block starts L after the
\* block before it, and every event of a shadow block carries shadow = true.
C7_ShadowBlocksFollowPrototype ==
    (Done /\ CompressedLoopCall /\ expand_loops /\ max_events = Unlimited) =>
        LET L == ir.children[1].length
            first == start + ir.children_start[1]
        IN /\ Len(LoopStepStarts) = ir.iterations
           /\ Len(LoopStepEnds) = ir.iterations
           /\ \A k \in 1..Len(LoopStepStarts) :
                 /\ events[LoopStepStarts[k]].time = first + (k - 1) * L
                 /\ k > 1 => BlockIsShadow(k)

(***************************************************************************)
(* C8                                                                      *)
(***************************************************************************)
\* C8: a compressed loop generated with expand_loops = false returns, for
\* every iteration count and budget, exactly one iteration block, that of
\* iteration 0, no event with shadow = true, and the prototype's trailing
\* LOOP_ITERATION_END with compressed = true.
C8_CompressedLoopEmitsPrototypeOnly ==
    (Done /\ CompressedLoopCall /\ ~expand_loops) =>
        LET last == events[Len(events) - 2]
        IN /\ Len(LoopStepStarts) = 1
           /\ Len(LoopStepEnds) = 1
           /\ events[LoopStepStarts[1]].iteration = 0
           /\ events[LoopStepEnds[1]].iteration = 0
           /\ \A i \in 1..Len(events) : ~Has(events[i], "shadow")
           /\ last.event_type = "LOOP_ITERATION_END"
           /\ last.section_name = ir.section
           /\ Has(last, "compressed") /\ last.compressed = TRUE
           /\ Cardinality(Positions("LOOP_ITERATION_END", ir.section)) = 1

\* a compressed loop of several iterations, not expanded, under a budget
\* that truncates its prototype
C8_Witness ==
    /\ Done
    /\ CompressedLoopCall
    /\ ~expand_loops
    /\ ir.iterations >= 2
    /\ Truncated

(***************************************************************************)
(* C9                                                                      *)
(***************************************************************************)
\* the LOOP_STEP_END at i is followed, after the DROP_PRNG_SAMPLE of its
\* iteration if there is one, by the LOOP_ITERATION_END of its iteration
IterationEndFollows(i) ==
    LET j == IF /\ i + 1 <= Len(events)
                /\ events[i + 1].event_type = "DROP_PRNG_SAMPLE"
                /\ events[i + 1].section_name = events[i].section_name
             THEN i + 2 ELSE i + 1
    IN /\ j <= Len(events)
       /\ events[j].event_type = "LOOP_ITERATION_END"
       /\ events[j].section_name = events[i].section_name

\* C9: the events of a loop iteration end with its LOOP_ITERATION_END if and
\* only if its iteration index is 0: every LOOP_ITERATION_END returned has
\* iteration = 0, and neither an iteration of index >= 1 of an unrolled loop
\* nor a shadow iteration is followed by one.
C9_IterationEndOnlyForIterationZero ==
    Done => \A i \in 1..Len(events) :
        /\ events[i].event_type = "LOOP_ITERATION_END" =>
              events[i].iteration = 0
        /\ events[i].event_type = "LOOP_STEP_END" =>
              (IterationEndFollows(i) <=> events[i].iteration = 0)

\* a list holding a shadow iteration and an unrolled iteration of index >= 1
C9_Witness ==
    /\ Done
    /\ \E i \in 1..Len(events) :
          /\ events[i].event_type = "LOOP_STEP_END"
          /\ events[i].iteration >= 1
          /\ Has(events[i], "shadow")
    /\ \E i \in 1..Len(events) :
          /\ events[i].event_type = "LOOP_STEP_END"
          /\ events[i].iteration >= 1
          /\ ~Has(events[i], "shadow")

(***************************************************************************)
(* C10                                                                     *)
(***************************************************************************)
\* C10: an empty branch with signals s_1..s_n returns SECTION_START, the
\* placeholder pairs DELAY_START (at start) / DELAY_END (at start + length)
\* of a prefix s_1..s_k of its signals in signal order, and SECTION_END;
\* k = n when the budget covers all its events, k = 0 when max_events <= 2.
C10_EmptyBranchDelaysPrefix ==
    (Done /\ ir.kind = "EmptyBranch") =>
        LET n == Len(ir.signals)
            k == (Len(events) - 2) \div 2
        IN /\ Len(events) = 2 + 2 * k
           /\ k \in 0..n
           /\ events[1].event_type = "SECTION_START"
           /\ events[1].time = start
           /\ events[Len(events)].event_type = "SECTION_END"
           /\ events[Len(events)].time = start + ir.length
           /\ \A j \in 1..k :
                 /\ events[2 * j].event_type = "DELAY_START"
                 /\ events[2 * j].time = start
                 /\ events[2 * j].signal = ir.signals[j]
                 /\ events[2 * j].play_wave_type = "EMPTY_CASE"
                 /\ events[2 * j + 1].event_type = "DELAY_END"
                 /\ events[2 * j + 1].time = start + ir.length
                 /\ events[2 * j + 1].signal = ir.signals[j]
                 /\ events[2 * j + 1].play_wave_type = "EMPTY_CASE"
                 /\ events[2 * j + 1].chain_element_id = events[2 * j].id
           /\ max_events <= 2 => k = 0
           /\ max_events >= 2 * n + 2 => k = n

\* an empty branch whose budget serves the first of its signals only
C10_Witness ==
    /\ Done
    /\ ir.kind = "EmptyBranch"
    /\ Len(ir.signals) >= 2
    /\ Len(events) = 4
    /\ events[2].event_type = "DELAY_START"

(***************************************************************************)
(* C11                                                                     *)
(***************************************************************************)
\* the top-level node is a plain Section
SectionCall == Done /\ ir.kind = "Section"

\* the trigger lines a budget serves: line i needs 2 events left of what
\* remains after the section's own 2 and the lines before it
TriggersServed(n, m) ==
    IF m - 2 < 2 THEN 0
    ELSE IF (m - 2) \div 2 < n THEN (m - 2) \div 2 ELSE n

\* the returned list is SECTION_START, the SET events of trigger lines 1..k,
\* PRNG_SETUP if p = 1, the children's events in child order,
\* DROP_PRNG_SETUP if p = 1, the CLEAR events of lines 1..k, SECTION_END
SectionLayout(k, p) ==
    LET last == Len(events)
        trigger == ir.trigger_output
        children == _children_events(ir, start,
                        SectionChildBudget(ir, max_events), 2 * p,
                        expand_loops, TRUE).nested
    IN /\ last >= 2 + 2 * k + 2 * p
       /\ events[1].event_type = "SECTION_START"
       /\ events[1].time = start
       /\ events[1].section_name = ir.section
       /\ \A i \in 1..k :
             /\ events[1 + i].event_type = "DIGITAL_SIGNAL_STATE_CHANGE"
             /\ events[1 + i].change = "SET"
             /\ events[1 + i].time = start
             /\ events[1 + i].signal = trigger[i][1]
             /\ events[1 + i].bit = trigger[i][2]
       /\ p = 1 => /\ events[2 + k].event_type = "PRNG_SETUP"
                   /\ events[2 + k].time = start
       /\ SubSeq(events, 2 + k + p, last - 1 - k - p) = Flatten(children)
       /\ p = 1 => events[last - k - 1].event_type = "DROP_PRNG_SETUP"
       /\ \A i \in 1..k :
             /\ events[last - k - 1 + i].event_type
                    = "DIGITAL_SIGNAL_STATE_CHANGE"
             /\ events[last - k - 1 + i].change = "CLEAR"
             /\ events[last - k - 1 + i].time = start + ir.length
             /\ events[last - k - 1 + i].signal = trigger[i][1]
             /\ events[last - k - 1 + i].bit = trigger[i][2]
       /\ events[last].event_type = "SECTION_END"
       /\ events[last].time = start + ir.length
       /\ events[last].section_name = ir.section

\* the childless section of length 100 with one trigger line on bit 3
OneTriggerSection ==
    /\ SectionCall
    /\ ir.children = <<>>
    /\ ir.length = 100
    /\ ~ir.prng_setup
    /\ Len(ir.trigger_output) = 1
    /\ ir.trigger_output[1][2] = 3

\* C11 as stated: a Section returns SECTION_START, one SET per configured
\* trigger line, PRNG_SETUP if it owns a PRNG configuration, its children's
\* events, DROP_PRNG_SETUP, the CLEAR events and SECTION_END, in that order.
C11_SectionOrderEveryTrigger ==
    SectionCall =>
        SectionLayout(Len(ir.trigger_output), IF ir.prng_setup THEN 1 ELSE 0)

\* C11 amended: the order is fixed under every budget, with the SET / CLEAR
\* pairs of the trigger lines the budget serves (a prefix of the lines, all
\* of them when max_events >= 2 + 2n) and the PRNG pair only if the section
\* owns a PRNG configuration and budget is left after the trigger pairs; the
\* childless section of length 100 with one trigger line on bit 3 and
\* budget >= 6 returns exactly SECTION_START, SET, CLEAR, SECTION_END.
C11_SectionOrderServedTriggers ==
    SectionCall =>
        LET n == Len(ir.trigger_output)
            k == TriggersServed(n, max_events)
            p == IF ir.prng_setup /\ max_events - 2 - 2 * k > 0 THEN 1 ELSE 0
        IN /\ SectionLayout(k, p)
           /\ max_events >= 2 + 2 * n => k = n
           /\ (OneTriggerSection /\ max_events >= 6) =>
                 /\ Len(events) = 4
                 /\ events[1].time = start
                 /\ events[2].time = start /\ events[2].bit = 3
                 /\ events[3].time = start + 100 /\ events[3].bit = 3
                 /\ events[4].time = start + 100

\* a section whose budget serves its trigger line, its PRNG pair and a child
\* and truncates the children after it
C11_Witness ==
    /\ SectionCall
    /\ Len(ir.trigger_output) = 1
    /\ ir.prng_setup
    /\ Truncated
    /\ events[2].event_type = "DIGITAL_SIGNAL_STATE_CHANGE"
    /\ events[3].event_type = "PRNG_SETUP"
    /\ events[4].event_type # "DROP_PRNG_SETUP"
    /\ events[Len(events) - 2].event_type = "DROP_PRNG_SETUP"

(***************************************************************************)
(* C16                                                                     *)
(***************************************************************************)
Flattened == pc = "flattened"

\* whether the call wrapped the sublists of Section-typed children
SubsectionsWrapped == flattening.subsection_events /\ IsSectionIR(ir)

\* the sublist of child i before subsection wrapping
Unwrapped(i) ==
    LET sublist == flattening.nested[i]
    IN IF SubsectionsWrapped /\ IsSectionIR(ir.children[i])
       THEN SubSeq(sublist, 2, Len(sublist) - 1)
       ELSE sublist

\* the budget left for child i: the budget after the subsection reservation
\* less the events children 1..i-1 returned
RECURSIVE Remaining(_)
Remaining(i) ==
    IF i = 1
    THEN max_events - (IF SubsectionsWrapped THEN 2 * Len(ir.children) ELSE 0)
    ELSE Remaining(i - 1) - Len(Unwrapped(i - 1))

\* what child i returns when it is visited with the budget left for it
RECURSIVE ChildResult(_)
ChildResult(i) ==
    generate_event_list(ir.children[i], start + ir.children_start[i],
                        Remaining(i),
                        IF i = 1 THEN 0 ELSE ChildResult(i - 1).idc,
                        expand_loops)

\* C16: child flattening of a node with n children returns n sublists in
\* child order; the children visited are a prefix of the child list; child
\* i is visited iff the budget after the subsection reservation (2 per child
\* for a Section parent) less the events of the children before it is
\* greater than 0; the sublist of an unvisited child is empty before
\* wrapping and that of a visited child is what the child returned.
C16_ChildFlatteningVisitsWhileBudgetLeft ==
    Flattened =>
        LET n == Len(ir.children)
            visited == flattening.visited
        IN /\ Len(flattening.nested) = n
           /\ visited \in 0..n
           /\ \A i \in 1..n :
                 /\ (i <= visited) <=> (Remaining(i) > 0)
                 /\ i > visited => Unwrapped(i) = <<>>
                 /\ i <= visited => Unwrapped(i) = ChildResult(i).ev

\* a Section parent of three children whose budget, after the reservation
\* of 6, reaches the second child and not the third
C16_Witness ==
    /\ Flattened
    /\ SubsectionsWrapped
    /\ Len(ir.children) = 3
    /\ flattening.visited = 2
    /\ Unwrapped(1) # <<>>
    /\ Unwrapped(2) # <<>>
    /\ max_events > 6

(***************************************************************************)
(* C17                                                                     *)
(***************************************************************************)
\* the events of a loop iteration that carry nesting_level
IterationEventTypes ==
    {"LOOP_STEP_START", "LOOP_STEP_END", "LOOP_ITERATION_END",
     "DRAW_PRNG_SAMPLE", "DROP_PRNG_SAMPLE"}

\* from position i on, with `depth` loops open (LOOP_START seen, LOOP_END
\* not yet): a loop's wrapper events carry the number of loops open around
\* the loop, the events of its iterations that number plus one, and no
\* other event carries nesting_level
RECURSIVE NestingFollowsLoops(_, _, _)
NestingFollowsLoops(list, i, depth) ==
    IF i > Len(list) THEN depth = 0
    ELSE LET e == list[i]
             carries == Has(e, "nesting_level")
         IN CASE e.event_type = "LOOP_START" ->
                    /\ carries /\ e.nesting_level = depth
                    /\ NestingFollowsLoops(list, i + 1, depth + 1)
              [] e.event_type = "LOOP_END" ->
                    /\ carries /\ e.nesting_level = depth - 1
                    /\ NestingFollowsLoops(list, i + 1, depth - 1)
              [] e.event_type \in IterationEventTypes ->
                    /\ depth >= 1
                    /\ carries /\ e.nesting_level = depth
                    /\ NestingFollowsLoops(list, i + 1, depth)
              [] e.event_type \in {"SECTION_START", "SECTION_END"}
                   /\ carries ->
                    /\ e.nesting_level = depth
                    /\ NestingFollowsLoops(list, i + 1, depth)
              [] OTHER ->
                    /\ ~carries
                    /\ NestingFollowsLoops(list, i + 1, depth)

\* the SECTION_START before every LOOP_START and the SECTION_END after
\* every LOOP_END are the loop's own and carry its nesting_level
LoopWrappersCarryLevel ==
    \A i \in 1..Len(events) :
        /\ events[i].event_type = "LOOP_START" =>
              /\ events[i - 1].event_type = "SECTION_START"
              /\ events[i - 1].section_name = events[i].section_name
              /\ Has(events[i - 1], "nesting_level")
        /\ events[i].event_type = "LOOP_END" =>
              /\ events[i + 1].event_type = "SECTION_END"
              /\ events[i + 1].section_name = events[i].section_name
              /\ Has(events[i + 1], "nesting_level")

\* C17: in the returned list the four wrapper events of a Loop carry as
\* nesting_level the number of Loops strictly enclosing it, the
\* LOOP_STEP_START, LOOP_STEP_END, LOOP_ITERATION_END and PRNG sample events
\* of its iterations that number plus one, whether the loop is unrolled,
\* compressed or expanded into shadows, and no other event carries one.
C17_NestingLevelCountsEnclosingLoops ==
    Done => /\ NestingFollowsLoops(events, 1, 0)
            /\ LoopWrappersCarryLevel

\* a compressed loop inside an unrolled loop, expanded: a shadow iteration
\* of the inner loop at level 2 after an unrolled iteration of index >= 1 of
\* the outer loop at level 1
C17_Witness ==
    /\ Done
    /\ \E i, j, k \in 1..Len(events) :
          /\ i < j /\ j < k
          /\ events[i].event_type = "LOOP_STEP_START"
          /\ events[i].iteration >= 1
          /\ ~Has(events[i], "shadow")
          /\ events[i].nesting_level = 1
          /\ events[j].event_type = "LOOP_START"
          /\ events[j].nesting_level = 1
          /\ events[k].event_type = "DRAW_PRNG_SAMPLE"
          /\ Has(events[k], "shadow")
          /\ events[k].nesting_level = 2

(***************************************************************************)
(* C18                                                                     *)
(***************************************************************************)
\* the node of the tree a section name (the node's path) names
RECURSIVE NodeAt(_, _, _)
NodeAt(node, path, k) ==
    IF k > Len(path) THEN node
    ELSE NodeAt(node.children[path[k]], path, k + 1)

\* the event is the SECTION_START or SECTION_END of a Case of the tree
IsCaseEvent(e, type) ==
    /\ e.event_type = type
    /\ NodeAt(ir, e.section_name, 2).kind \in {"Case", "EmptyBranch"}

\* the event carries the state of the innermost Case open around it
CarriesState(e, open) ==
    open # <<>> => (Has(e, "state") /\ e.state = Head(open))

\* from position i on, with the branch values `open` of the Cases whose
\* SECTION_START was seen and SECTION_END not yet, innermost first: every
\* event carries the branch value of the innermost Case open around it
RECURSIVE StateFollowsCase(_, _, _)
StateFollowsCase(list, i, open) ==
    IF i > Len(list) THEN TRUE
    ELSE LET e == list[i] IN
         IF IsCaseEvent(e, "SECTION_START")
         THEN LET inside == << NodeAt(ir, e.section_name, 2).state >> \o open
              IN CarriesState(e, inside) /\ StateFollowsCase(list, i + 1, inside)
         ELSE IF IsCaseEvent(e, "SECTION_END")
         THEN CarriesState(e, open) /\ StateFollowsCase(list, i + 1, Tail(open))
         ELSE CarriesState(e, open) /\ StateFollowsCase(list, i + 1, open)

\* C18 as stated: in the returned list every event emitted from within the
\* subtree of a Case carries a state field equal to the branch value of its
\* nearest enclosing Case, also when a Match is nested in a Case of an outer
\* Match.
C18_StateOfNearestEnclosingCase ==
    Done => StateFollowsCase(events, 1, <<>>)

(***************************************************************************)
(* Vocabulary of the properties of match timing resolution.                *)
(***************************************************************************)
Returned == pc = "returned"

\* the signals participating in the match
Participating ==
    { match_schedule.signals[i] : i \in 1..Len(match_schedule.signals) }

\* the start the call resolves on other schedule data, proposed start and
\* latencies, everything else as in the call
Resolve(data, t, get_latency) ==
    _compute_start_with_latency(data, t, match_schedule.local,
        match_schedule.handle, match_schedule.section, match_schedule.signals,
        match_schedule.grid, get_latency).start

\* the schedule data with a delay attribute of a signal increased
DelayIncreased(signal, attribute, by) ==
    [schedule_data EXCEPT !.signal_objects[signal] =
        SetField(@, attribute, Or0(@, attribute) + by)]

\* the latencies with that of a generator class increased
LatencyIncreased(toolkit, by) ==
    [timing.get_latency EXCEPT ![toolkit] = @ + by]

DelayAttributes == {"start_delay", "delay_signal"}

(***************************************************************************)
(* C12                                                                     *)
(***************************************************************************)
\* C12 as stated: with all other inputs fixed, increasing a participating
\* signal's start delay or delay_signal, or the latency the latency model
\* returns, never decreases the resolved start.
C12_DelayAndLatencyNeverDecreaseStart ==
    Returned => \A by \in 1..MaxBump :
        /\ \A signal \in Participating, attribute \in DelayAttributes :
              Resolve(DelayIncreased(signal, attribute, by), start,
                      timing.get_latency) >= timing.start
        /\ \A toolkit \in DOMAIN timing.get_latency :
              Resolve(schedule_data, start, LatencyIncreased(toolkit, by))
                  >= timing.start

\* C12 amended: the resolved start never decreases when the latency returned
\* for a generator class or the proposed start increases, and never
\* increases when a participating signal's start delay or delay_signal
\* increases: the delay is subtracted from the time of arrival.
C12_LatencyRaisesAndDelayLowersStart ==
    Returned => \A by \in 1..MaxBump :
        /\ \A signal \in Participating, attribute \in DelayAttributes :
              Resolve(DelayIncreased(signal, attribute, by), start,
                      timing.get_latency) <= timing.start
        /\ \A toolkit \in DOMAIN timing.get_latency :
              Resolve(schedule_data, start, LatencyIncreased(toolkit, by))
                  >= timing.start
        /\ Resolve(schedule_data, start + by, timing.get_latency)
              >= timing.start

\* a call whose start a larger latency raises and a larger delay lowers
C12_Witness ==
    /\ Returned
    /\ \E toolkit \in DOMAIN timing.get_latency :
          Resolve(schedule_data, start, LatencyIncreased(toolkit, 1))
              > timing.start
    /\ \E signal \in Participating, attribute \in DelayAttributes :
          Resolve(DelayIncreased(signal, attribute, MaxBump), start,
                  timing.get_latency) < timing.start

(***************************************************************************)
(* C13                                                                     *)
(***************************************************************************)
\* C13 as stated: the start returned is a multiple of the match's grid, for
\* every proposed start, set of participating signals and latency.
C13_StartIsGridMultiple ==
    Returned => timing.start % match_schedule.grid = 0

\* C13 amended: what each participating signal contributes is a multiple of
\* the grid, and the start returned is a multiple of the grid or it is the
\* proposed start, returned as proposed; so the start returned is a multiple
\* of the grid whenever the proposed start is.
C13_GridMultipleOrProposedStart ==
    Returned =>
        /\ \A signal \in Participating :
              ExecuteTableEntry(schedule_data, signal,
                  timing.get_latency[
                      toolkit_sgtype(schedule_data.signal_objects[signal])],
                  match_schedule.grid) % match_schedule.grid = 0
        /\ \/ timing.start % match_schedule.grid = 0
           \/ timing.start = start
        /\ start % match_schedule.grid = 0 =>
              timing.start % match_schedule.grid = 0

\* a proposed start off the grid that the latency of a signal raises to a
\* multiple of the grid
C13_Witness ==
    /\ Returned
    /\ match_schedule.grid > 1
    /\ Participating # {}
    /\ start % match_schedule.grid # 0
    /\ timing.start > start
    /\ timing.start % match_schedule.grid = 0

(***************************************************************************)
(* C14                                                                     *)
(***************************************************************************)
\* the greatest element of a set of integers
SetMax(S) == CHOOSE x \in S : \A y \in S : y <= x

\* the latency returned for the signal in its time base, less the signal's
\* lead and delay offset, rounded up to the grid
GridRoundedArrival(signal) ==
    LET obj == schedule_data.signal_objects[signal]
    IN ceil_to_grid(timing.get_latency[toolkit_sgtype(obj)]
                        * SeqDtForLatency(schedule_data, obj)
                      - SecondsToTinysamples(Or0(obj, "start_delay")
                                               + Or0(obj, "delay_signal")),
                    match_schedule.grid)

\* C14: the start returned is the maximum of the proposed start and, over
\* the participating signals, the grid-rounded value of the latency in the
\* signal's time base less the signal's lead and delay offset; it is never
\* less than the proposed start, it is the proposed start when no signal
\* participates, and it is the start handed to every Case child.
C14_StartIsMaxOfProposedAndArrivals ==
    Returned =>
        /\ timing.start
              = SetMax({start} \cup { GridRoundedArrival(signal) :
                                        signal \in Participating })
        /\ timing.start >= start
        /\ Participating = {} => timing.start = start
        /\ Len(timing.child_start) = Len(match_schedule.children)
        /\ \A i \in 1..Len(timing.child_start) :
              timing.child_start[i] = timing.start

\* a match of two signals whose start the latency moves beyond the proposed
\* one, and one whose latency leaves the proposed start
C14_Witness ==
    /\ Returned
    /\ Cardinality(Participating) = 2
    /\ start > 0
    /\ timing.start > start
    /\ \E signal \in Participating : GridRoundedArrival(signal) < start
    /\ timing.child_start = << timing.start, timing.start >>

(***************************************************************************)
(* C15                                                                     *)
(***************************************************************************)
Called == pc # "ready"

\* the acquisitions registered for the handle of the match
Registered ==
    IF match_schedule.handle \in DOMAIN schedule_data.acquire_pulses
    THEN schedule_data.acquire_pulses[match_schedule.handle]
    ELSE << >>

\* the most recent of them
MostRecent == Registered[Len(Registered)]

\* the readout device of the most recent acquisition is one the latency
\* model supports
ReadoutSupported ==
    LET obj == schedule_data.signal_objects[MostRecent.signal_id]
    IN obj.is_qc \/ obj.device_type.str_value \in {"shfqa", "shfqc"}

\* every participating signal is on a generator the latency model supports
GeneratorsSupported ==
    \A signal \in Participating :
        LET obj == schedule_data.signal_objects[signal]
        IN obj.is_qc \/ obj.device_type.str_value \in {"hdawg", "shfsg", "shfqc"}

\* the call ended in this error, returning no start, without timing a Case
\* child or calculating the length
FatalError(exception) ==
    /\ pc = "raised"
    /\ timing.exception = exception
    /\ ~Has(timing, "start")
    /\ timing.child_start = << >>
    /\ ~timing.length_calculated

\* the call returned a start, resolved with the most recent acquisition
ReturnsStart ==
    /\ pc = "returned"
    /\ Has(timing, "start")
    /\ timing.acquire_pulse = MostRecent
    /\ timing.length_calculated

\* C15 as stated: the call ends in a fatal error, in this order of checks,
\* if start_may_change is asserted (before any acquisition lookup), if no
\* acquisition is registered for the handle, if the most recent one has an
\* unresolved start, if its readout device is not supported; in all other
\* cases it uses the most recent acquisition and returns a start.
C15_FatalErrorsElseStart ==
    Called =>
        IF start_may_change
        THEN FatalError("start may change") /\ ~timing.acquire_lookup
        ELSE IF Registered = << >> THEN FatalError("No acquire found")
        ELSE IF ~Has(MostRecent, "absolute_start")
        THEN FatalError("acquire not scheduled")
        ELSE IF ~ReadoutSupported THEN FatalError("Feedback not supported")
        ELSE ReturnsStart

\* C15 amended: the four fatal errors as stated, in that order; in the other
\* cases the call fails with a KeyError, again without a start, child timing
\* or length, if a participating signal is on a device that is no HDAWG,
\* SHFSG or SHFQC, and else returns a start resolved with the most recent
\* acquisition.
C15_FatalErrorsElseKeyErrorElseStart ==
    Called =>
        IF start_may_change
        THEN FatalError("start may change") /\ ~timing.acquire_lookup
        ELSE IF Registered = << >> THEN FatalError("No acquire found")
        ELSE IF ~Has(MostRecent, "absolute_start")
        THEN FatalError("acquire not scheduled")
        ELSE IF ~ReadoutSupported THEN FatalError("Feedback not supported")
        ELSE IF ~GeneratorsSupported THEN FatalError("KeyError")
        ELSE ReturnsStart

\* a call that fails on the readout device of the most recent of two
\* acquisitions, the earlier of which is on a supported device
C15_Witness ==
    /\ pc = "raised"
    /\ timing.exception = "Feedback not supported"
    /\ Len(Registered) = 2
    /\ Registered[1].signal_id = "m0"
    /\ ~GeneratorsSupported

====
